---- MODULE Spec2Model ----
(***************************************************************************)
(* A model of the Catchat desktop launcher (main.py).                      *)
(*                                                                         *)
(* The launcher probes two optional modules when it is loaded (tkinter and *)
(* pywebview), then main() either opens the fixed URL in the system        *)
(* browser and returns (no tkinter), or builds a window with two buttons   *)
(* and runs its event loop.  The button handlers are open_in_webview and   *)
(* open_in_browser; open_in_webview hands webview.create_window and        *)
(* webview.start to a daemon thread.                                       *)
(*                                                                         *)
(* The environment is explicit: which modules can be imported, whether     *)
(* tk.Tk() can open a display and whether the display stays, what standard *)
(* output and standard error do with what is written to them, when         *)
(* webbrowser.open returns and                                             *)
(* whether it returns or raises, when the showerror dialog is dismissed,   *)
(* whether the OS grants a new thread, and whether webview.start() blocks  *)
(* or raises.  A handler is a sequence of steps, one up to each call that  *)
(* can block (webbrowser.open, showerror, Thread.start), and the threads'  *)
(* steps interleave with them.                                             *)
(***************************************************************************)
EXTENDS Naturals, Sequences, FiniteSets

VARIABLES
    env,            \* the runtime environment: what can be imported, display,
                    \* standard output
    tk,             \* module global tk: "tkinter" or "None"
    messagebox,     \* module global messagebox: "tkinter.messagebox" or "None"
    webview,        \* module global webview: "webview" or "None"
    HAS_WEBVIEW,    \* module global HAS_WEBVIEW
    URL,            \* module global URL
    pc,             \* main thread: "main", "fallback" (after the notice of line
                    \* 65), "idle", "dispatch", "in_open" (inside
                    \* webbrowser.open), "dialog" (inside showerror), "in_start"
                    \* (inside Thread.start), "returned", "exit"
    exc,            \* the exception main() ended with ("TclError", "OSError",
                    \* "Exception"), or "none"
    exitCode,       \* the process's exit code, or "running"
    root,           \* the launcher window built by main()
    command,        \* the button command the event loop is running, or "none"
    clicks,         \* per command, the button clicks the event loop received
    calls,          \* per function, the number of times it has been called
    browserCalls,   \* the calls made to webbrowser.open, in order
    dialogs,        \* the calls made to messagebox.showerror, in order
    stdout,         \* lines written to sys.stdout without an error
    stderr,         \* lines written to standard error without an error
    stuck,          \* a standard stream holds text it could not write out
    threads,        \* the threading.Thread objects open_in_webview made, in order
    windows         \* the webview.create_window calls made, in order

vars == <<env, tk, messagebox, webview, HAS_WEBVIEW, URL, pc, exc, exitCode,
          root, command, clicks, calls, browserCalls, dialogs, stdout, stderr,
          stuck, threads, windows>>

\* The number of button clicks the model follows.
MaxClicks == 2

Commands == {"open_in_webview", "open_in_browser"}

CatchatUrl == "https://awoo-co.github.io/catchat/"

TkNotice == "Tkinter is not available in this environment. Opening in browser..."

WebviewMissingTitle == "Missing dependency"

WebviewMissingDialog == "pywebview is not installed.\nInstall with: pip install pywebview"

WebviewMissingLine == "pywebview is not installed. Install with: pip install pywebview"

\* try: import tkinter as tk; from tkinter import messagebox
\* except Exception: tk = None; messagebox = None
TkProbe(e) ==
    IF e.tkinter /\ e.messagebox
    THEN [tk |-> "tkinter", messagebox |-> "tkinter.messagebox"]
    ELSE [tk |-> "None", messagebox |-> "None"]

\* try: import webview; HAS_WEBVIEW = True
\* except Exception: webview = None; HAS_WEBVIEW = False
WebviewProbe(e) ==
    IF e.webview
    THEN [webview |-> "webview", HAS_WEBVIEW |-> TRUE]
    ELSE [webview |-> "None", HAS_WEBVIEW |-> FALSE]

\* What a standard stream is: one that can be written ("ok"), one whose every
\* write fails (a full device: "full"), or none (the descriptor is closed and
\* sys.stdout or sys.stderr is None: "closed").
Streams == {"ok", "full", "closed"}

\* unbuffered: the interpreter runs with -u.  Buffered, sys.stdout takes a line
\* into its buffer and sys.stderr writes at each line end; unbuffered, both
\* write at once and keep nothing.
Environments ==
    [tkinter : BOOLEAN, messagebox : BOOLEAN, webview : BOOLEAN, display : BOOLEAN,
     unbuffered : BOOLEAN, stdout : Streams, stderr : Streams]

\* print(line), on streams out, err with stk text stuck: written; or dropped
\* (sys.stdout is None); or refused, print raising OSError (unbuffered and
\* full); or taken into the buffer, which the interpreter fails to flush at
\* exit (buffered and full).
WriteOut(out, err, stk, line) ==
    IF env.stdout = "ok"
    THEN [stdout |-> Append(out, line), stderr |-> err, stuck |-> stk,
          raised |-> FALSE]
    ELSE IF env.stdout = "closed"
    THEN [stdout |-> out, stderr |-> err, stuck |-> stk, raised |-> FALSE]
    ELSE IF env.unbuffered
    THEN [stdout |-> out, stderr |-> err, stuck |-> stk, raised |-> TRUE]
    ELSE [stdout |-> Append(out, line), stderr |-> err, stuck |-> TRUE,
          raised |-> FALSE]

\* print(line, file=sys.stderr), as in line 50 and in tkinter's report of an
\* exception in a callback: written; or refused, print raising OSError, the
\* line staying in the buffer unless unbuffered (full); or, sys.stderr being
\* None, printed to sys.stdout instead (closed).
WriteErr(out, err, stk, line) ==
    IF env.stderr = "ok"
    THEN [stdout |-> out, stderr |-> Append(err, line), stuck |-> stk,
          raised |-> FALSE]
    ELSE IF env.stderr = "full"
    THEN [stdout |-> out, stderr |-> err, stuck |-> (stk \/ ~env.unbuffered),
          raised |-> TRUE]
    ELSE WriteOut(out, err, stk, line)

\* The traceback the interpreter writes for the exception that ended main(),
\* and the threading module for one that ended a thread: written; or lost, the
\* text staying in the buffer unless unbuffered (full); or not written at all
\* (closed).  It never raises.
WriteTraceback(out, err, stk, line) ==
    IF env.stderr = "ok"
    THEN [stdout |-> out, stderr |-> Append(err, line), stuck |-> stk,
          raised |-> FALSE]
    ELSE IF env.stderr = "full"
    THEN [stdout |-> out, stderr |-> err, stuck |-> (stk \/ ~env.unbuffered),
          raised |-> FALSE]
    ELSE [stdout |-> out, stderr |-> err, stuck |-> stk, raised |-> FALSE]

\* Nothing is written.
NoWrite == [stdout |-> stdout, stderr |-> stderr, stuck |-> stuck, raised |-> FALSE]

\* The streams after a write.
SetStreams(r) ==
    /\ stdout' = r.stdout
    /\ stderr' = r.stderr
    /\ stuck' = r.stuck

\* closed: the user has closed the launcher window.
NoWindow ==
    [built |-> FALSE, title |-> "", geometry |-> "", buttons |-> {}, note |-> FALSE,
     closed |-> FALSE]

Init ==
    /\ env \in Environments
    /\ tk = TkProbe(env).tk
    /\ messagebox = TkProbe(env).messagebox
    /\ webview = WebviewProbe(env).webview
    /\ HAS_WEBVIEW = WebviewProbe(env).HAS_WEBVIEW
    /\ URL = CatchatUrl
    /\ pc = "main"
    /\ exc = "none"
    /\ exitCode = "running"
    /\ root = NoWindow
    /\ command = "none"
    /\ clicks = [c \in Commands |-> 0]
    /\ calls = [c \in Commands |-> 0]
    /\ browserCalls = <<>>
    /\ dialogs = <<>>
    /\ stdout = <<>>
    /\ stderr = <<>>
    /\ stuck = FALSE
    /\ threads = <<>>
    /\ windows = <<>>

(***************************************************************************)
(* The handlers, as functions of the state they can reach: the module      *)
(* globals and the effects on the outside world.  Each gives the state at  *)
(* the handler's blocking call; the call's return is a step of its own.    *)
(***************************************************************************)
\* raised: an exception leaves the handler.
World ==
    [HAS_WEBVIEW |-> HAS_WEBVIEW, URL |-> URL, browserCalls |-> browserCalls,
     dialogs |-> dialogs, stdout |-> stdout, stderr |-> stderr, stuck |-> stuck,
     threads |-> threads, raised |-> FALSE]

SetWorld(w) ==
    /\ HAS_WEBVIEW' = w.HAS_WEBVIEW
    /\ URL' = w.URL
    /\ browserCalls' = w.browserCalls
    /\ dialogs' = w.dialogs
    /\ stdout' = w.stdout
    /\ stderr' = w.stderr
    /\ stuck' = w.stuck
    /\ threads' = w.threads

\* A variant that opens the browser only as the stand-in for a missing pywebview.
open_in_browser_only_without_webview(w) ==
    IF w.HAS_WEBVIEW
    THEN w
    ELSE [w EXCEPT !.browserCalls =
                     Append(@, [url |-> w.URL, new |-> 2, ok |-> "pending"])]

\* A variant that leaves the browser alone while an embedded view is up.
open_in_browser_unless_view_up(w) ==
    IF \E i \in DOMAIN w.threads :
           w.threads[i].st \in {"new", "started", "created", "running"}
    THEN w
    ELSE [w EXCEPT !.browserCalls =
                     Append(@, [url |-> w.URL, new |-> 2, ok |-> "pending"])]

\* webbrowser.open(URL, new=2) is called; ok is the value it will return.
open_in_browser(w) ==
    [w EXCEPT !.browserCalls = Append(@, [url |-> w.URL, new |-> 2, ok |-> "pending"])]

\* A variant with t.join() after t.start().
NewThreadJoined ==
    [daemon |-> TRUE, joined |-> TRUE, st |-> "new", sees |-> {}, shown |-> FALSE]

\* A variant with daemon=False.
NewThreadNonDaemon ==
    [daemon |-> FALSE, joined |-> FALSE, st |-> "new", sees |-> {}, shown |-> FALSE]

\* t = threading.Thread(target=_run, daemon=True); t.start(); t is never joined.
\* st is the position of the thread: "new" until it has been bootstrapped
\* ("unstarted" if the OS refused it), then the position of _run; sees is what
\* its webview.start() found registered; shown is whether its webview.start()
\* has run an embedded view.
NewThread ==
    [daemon |-> TRUE, joined |-> FALSE, st |-> "new", sees |-> {}, shown |-> FALSE]

\* A variant that does what the module docstring says: without pywebview it
\* falls back to the system browser, and shows nothing.
open_in_webview_falls_back(w) ==
    IF ~w.HAS_WEBVIEW
    THEN [w EXCEPT !.browserCalls =
                     Append(@, [url |-> w.URL, new |-> 2, ok |-> "pending"])]
    ELSE [w EXCEPT !.threads = Append(@, NewThread)]

\* A variant that probes for pywebview again on every call.
open_in_webview_reprobes(w) ==
    LET v == [w EXCEPT !.HAS_WEBVIEW = env.webview]
    IN  IF ~v.HAS_WEBVIEW
        THEN [v EXCEPT !.dialogs = Append(@, [title |-> WebviewMissingTitle,
                                                message |-> WebviewMissingDialog])]
        ELSE [v EXCEPT !.threads = Append(@, NewThread)]

\* Up to messagebox.showerror(...) being shown, the line being printed, or
\* t.start() being called.
open_in_webview(w) ==
    IF ~w.HAS_WEBVIEW
    THEN IF messagebox # "None"
         THEN [w EXCEPT !.dialogs = Append(@, [title |-> WebviewMissingTitle,
                                                 message |-> WebviewMissingDialog])]
         ELSE LET r == WriteErr(w.stdout, w.stderr, w.stuck, WebviewMissingLine)
              IN  [w EXCEPT !.stdout = r.stdout, !.stderr = r.stderr,
                            !.stuck = r.stuck, !.raised = r.raised]
    ELSE [w EXCEPT !.threads = Append(@, NewThread)]

Alive(t) == t.st \in {"new", "started", "created", "running"}

\* The handler waits on no thread: the code has no t.join().
UiFree == \A i \in DOMAIN threads : ~(threads[i].joined /\ Alive(threads[i]))

(***************************************************************************)
(* main()                                                                  *)
(***************************************************************************)
\* if tk is None: print("Tkinter is not available ...").  When print() raises
\* OSError main() does not catch it: main() ends and the interpreter writes
\* the traceback.
MainPrintNotice ==
    /\ pc = "main"
    /\ tk = "None"
    /\ LET r == WriteOut(stdout, stderr, stuck, TkNotice)
       IN  IF r.raised
           THEN /\ exc' = "OSError"
                /\ SetStreams(WriteTraceback(r.stdout, r.stderr, r.stuck,
                                             "Traceback: OSError in print"))
                /\ pc' = "returned"
           ELSE /\ exc' = exc
                /\ SetStreams(r)
                /\ pc' = "fallback"
    /\ UNCHANGED <<env, tk, messagebox, webview, HAS_WEBVIEW, URL, exitCode, root,
                   command, clicks, calls, browserCalls, dialogs, threads, windows>>

\* open_in_browser() after the notice, up to the call of webbrowser.open.
MainFallback ==
    /\ pc = "fallback"
    /\ SetWorld(open_in_browser(World))
    /\ calls' = [calls EXCEPT !["open_in_browser"] = @ + 1]
    /\ pc' = "in_open"
    /\ UNCHANGED <<env, tk, messagebox, webview, exc, exitCode, root, command,
                   clicks, windows>>

\* root = tk.Tk() ... b1, b2, the note when not HAS_WEBVIEW ... root.mainloop()
MainBuildWindow ==
    /\ pc = "main"
    /\ tk # "None"
    /\ env.display
    /\ root' = [built |-> TRUE, title |-> "Catchat", geometry |-> "420x160",
                buttons |-> {[text |-> "Open in App (embedded)",
                              command |-> "open_in_webview"],
                             [text |-> "Open in Browser",
                              command |-> "open_in_browser"]},
                note |-> ~HAS_WEBVIEW,
                closed |-> FALSE]
    /\ pc' = "idle"
    /\ UNCHANGED <<stuck, env, tk, messagebox, webview, HAS_WEBVIEW, URL, exc, exitCode,
                   command, clicks, calls, browserCalls, dialogs, stdout, stderr,
                   threads, windows>>

\* root = tk.Tk() raises TclError when there is no display; main() does not
\* catch it, and the interpreter writes the traceback.
MainTkError ==
    /\ pc = "main"
    /\ tk # "None"
    /\ ~env.display
    /\ exc' = "TclError"
    /\ SetStreams(WriteTraceback(stdout, stderr, stuck, "Traceback: _tkinter.TclError"))
    /\ pc' = "returned"
    /\ UNCHANGED <<env, tk, messagebox, webview, HAS_WEBVIEW, URL, exitCode, root,
                   command, clicks, calls, browserCalls, dialogs, threads, windows>>

(***************************************************************************)
(* root.mainloop(): the event loop and the two handlers                    *)
(***************************************************************************)
\* The user clicks a button; the loop dispatches its command.
Click(c) ==
    /\ pc = "idle"
    /\ \E b \in root.buttons : b.command = c
    /\ clicks["open_in_webview"] + clicks["open_in_browser"] < MaxClicks
    /\ clicks' = [clicks EXCEPT ![c] = @ + 1]
    /\ command' = c
    /\ pc' = "dispatch"
    /\ UNCHANGED <<stuck, env, tk, messagebox, webview, HAS_WEBVIEW, URL, exc, exitCode,
                   root, calls, browserCalls, dialogs, stdout, stderr, threads,
                   windows>>

\* command=open_in_browser, up to the call of webbrowser.open.
RunOpenInBrowser ==
    /\ pc = "dispatch"
    /\ command = "open_in_browser"
    /\ SetWorld(open_in_browser(World))
    /\ calls' = [calls EXCEPT !["open_in_browser"] = @ + 1]
    /\ pc' = "in_open"
    /\ UNCHANGED <<env, tk, messagebox, webview, exc, exitCode, root, command,
                   clicks, windows>>

\* The ways webbrowser.open ends: its two values, or an exception (a BROWSER
\* command line that cannot be parsed).
OpenOutcomes == {"True", "False", "raised"}

\* webbrowser.open ends, when the browser lets it (a browser run in the
\* foreground: when it exits).  Its value is dropped and open_in_browser
\* returns, to the event loop or to main(), which returns.  An exception is
\* not caught.  In main() it ends main() and the interpreter writes the
\* traceback.  In a handler tkinter reports it and the loop goes on; when the
\* report cannot be written, its OSError leaves the callback and ends
\* mainloop() and main().
WebbrowserOpenReturns ==
    /\ pc = "in_open"
    /\ \E ok \in OpenOutcomes :
         LET r == IF ok # "raised" THEN NoWrite
                  ELSE IF command = "open_in_browser"
                  THEN WriteErr(stdout, stderr, stuck,
                                "Traceback: exception in webbrowser.open")
                  ELSE WriteTraceback(stdout, stderr, stuck,
                                      "Traceback: exception in webbrowser.open")
         IN  /\ browserCalls' = [browserCalls EXCEPT ![Len(browserCalls)].ok = ok]
             /\ SetStreams(r)
             /\ exc' = IF r.raised THEN "OSError"
                       ELSE IF ok = "raised" /\ command # "open_in_browser"
                       THEN "Exception"
                       ELSE exc
             /\ pc' = IF command = "open_in_browser" /\ ~r.raised
                      THEN "idle"
                      ELSE "returned"
    /\ command' = "none"
    /\ UNCHANGED <<env, tk, messagebox, webview, HAS_WEBVIEW, URL, exitCode,
                   root, clicks, calls, dialogs, threads, windows>>

\* command=open_in_webview, up to showerror being shown (modal), the line
\* being printed (then it returns), or t.start() being called.
RunOpenInWebview ==
    /\ pc = "dispatch"
    /\ command = "open_in_webview"
    /\ SetWorld(open_in_webview(World))
    /\ calls' = [calls EXCEPT !["open_in_webview"] = @ + 1]
    /\ pc' = IF HAS_WEBVIEW THEN "in_start"
             ELSE IF messagebox # "None" THEN "dialog" ELSE "idle"
    /\ command' = IF ~HAS_WEBVIEW /\ messagebox = "None" THEN "none" ELSE command
    /\ UNCHANGED <<env, tk, messagebox, webview, exc, exitCode, root, clicks,
                   windows>>

\* The user dismisses the dialog: showerror returns and so does the handler.
DismissDialog ==
    /\ pc = "dialog"
    /\ command' = "none"
    /\ pc' = "idle"
    /\ UNCHANGED <<stuck, env, tk, messagebox, webview, HAS_WEBVIEW, URL, exc, exitCode,
                   root, clicks, calls, browserCalls, dialogs, stdout, stderr,
                   threads, windows>>

\* t.start() returns once the new thread has been bootstrapped, wherever _run
\* has got to by then; the handler returns to the event loop.
ThreadStartReturns ==
    /\ pc = "in_start"
    /\ threads[Len(threads)].st # "new"
    /\ UiFree
    /\ command' = "none"
    /\ pc' = "idle"
    /\ UNCHANGED <<stuck, env, tk, messagebox, webview, HAS_WEBVIEW, URL, exc, exitCode,
                   root, clicks, calls, browserCalls, dialogs, stdout, stderr,
                   threads, windows>>

\* The OS refuses the new thread: t.start() raises RuntimeError, _run never
\* runs, tkinter reports the exception and the loop goes on; when the report
\* cannot be written, its OSError ends mainloop() and main().
ThreadStartFails ==
    /\ pc = "in_start"
    /\ threads[Len(threads)].st = "new"
    /\ threads' = [threads EXCEPT ![Len(threads)].st = "unstarted"]
    /\ LET r == WriteErr(stdout, stderr, stuck, "Traceback: exception in Thread.start")
       IN  /\ SetStreams(r)
           /\ exc' = IF r.raised THEN "OSError" ELSE exc
           /\ pc' = IF r.raised THEN "returned" ELSE "idle"
    /\ command' = "none"
    /\ UNCHANGED <<env, tk, messagebox, webview, HAS_WEBVIEW, URL, exitCode,
                   root, clicks, calls, browserCalls, dialogs, windows>>

\* The user closes the launcher window: mainloop() returns and so does main().
\* The event loop serves the close when it is idle and, where the dialog is
\* Tk's own (X11), inside showerror too: the dialog goes with the window,
\* showerror raises TclError and tkinter reports it; when the report cannot
\* be written, its OSError is what ends mainloop() and main().
CloseWindow ==
    /\ pc \in {"idle", "dialog"}
    /\ root' = [root EXCEPT !.closed = TRUE]
    /\ LET r == IF pc = "dialog"
                THEN WriteErr(stdout, stderr, stuck, "Traceback: _tkinter.TclError")
                ELSE NoWrite
       IN  /\ SetStreams(r)
           /\ exc' = IF r.raised THEN "OSError" ELSE exc
    /\ command' = "none"
    /\ pc' = "returned"
    /\ UNCHANGED <<env, tk, messagebox, webview, HAS_WEBVIEW, URL, exitCode,
                   clicks, calls, browserCalls, dialogs, threads, windows>>

(***************************************************************************)
(* _run, on its own thread                                                 *)
(***************************************************************************)
\* The new thread starts running and tells t.start() so; _run is next.
ThreadBootstrap(i) ==
    /\ pc # "exit"
    /\ threads[i].st = "new"
    /\ threads' = [threads EXCEPT ![i].st = "started"]
    /\ UNCHANGED <<stuck, env, tk, messagebox, webview, HAS_WEBVIEW, URL, pc, exc,
                   exitCode, root, command, clicks, calls, browserCalls, dialogs,
                   stdout, stderr, windows>>

\* webview.create_window("Catchat", URL) is called: the module registers the
\* window; nothing is shown before webview.start().
ThreadCreateWindow(i) ==
    /\ pc # "exit"
    /\ threads[i].st = "started"
    /\ windows' = Append(windows, [title |-> "Catchat", url |-> URL, by |-> i])
    /\ threads' = [threads EXCEPT ![i].st = "created"]
    /\ UNCHANGED <<stuck, env, tk, messagebox, webview, HAS_WEBVIEW, URL, pc, exc,
                   exitCode, root, command, clicks, calls, browserCalls, dialogs,
                   stdout, stderr>>

\* webview.start() is called: it takes the registered windows and blocks,
\* running the embedded view, or raises (pywebview may refuse to run off the
\* main thread); the threading module writes the traceback.
ThreadStart(i) ==
    /\ pc # "exit"
    /\ threads[i].st = "created"
    /\ \E outcome \in {"running", "raised"} :
         /\ threads' = [threads EXCEPT
                          ![i].st = outcome,
                          ![i].shown = (outcome = "running"),
                          ![i].sees = {windows[k].by : k \in DOMAIN windows}]
         /\ SetStreams(IF outcome = "raised"
                       THEN WriteTraceback(stdout, stderr, stuck,
                                           "Traceback: exception in thread")
                       ELSE NoWrite)
    /\ UNCHANGED <<env, tk, messagebox, webview, HAS_WEBVIEW, URL, pc, exc,
                   exitCode, root, command, clicks, calls, browserCalls, dialogs,
                   windows>>

\* The embedded view is closed: webview.start() returns and _run ends.
ThreadReturn(i) ==
    /\ pc # "exit"
    /\ threads[i].st = "running"
    /\ threads' = [threads EXCEPT ![i].st = "done"]
    /\ UNCHANGED <<stuck, env, tk, messagebox, webview, HAS_WEBVIEW, URL, pc, exc,
                   exitCode, root, command, clicks, calls, browserCalls, dialogs,
                   stdout, stderr, windows>>

(***************************************************************************)
(* The interpreter and the environment                                     *)
(***************************************************************************)
\* After main() the interpreter waits for the non-daemon threads, flushes
\* the standard streams and exits; the daemon threads end with it.  The exit
\* code is 1 when main() ended by an exception and 0 otherwise, and 120
\* whichever it was when a stream holds text the flush cannot write.
InterpreterExit ==
    /\ pc = "returned"
    /\ \A i \in DOMAIN threads : Alive(threads[i]) => threads[i].daemon
    /\ pc' = "exit"
    /\ exitCode' = IF stuck THEN "120" ELSE IF exc = "none" THEN "0" ELSE "1"
    /\ stderr' = IF stuck /\ env.stderr = "ok"
                 THEN Append(stderr, "Exception ignored: OSError in flush of stdout")
                 ELSE stderr
    /\ threads' = [i \in DOMAIN threads |->
                     IF Alive(threads[i])
                     THEN [threads[i] EXCEPT !.st = "killed"]
                     ELSE threads[i]]
    /\ UNCHANGED <<env, tk, messagebox, webview, HAS_WEBVIEW, URL, exc, root,
                   command, clicks, calls, browserCalls, dialogs, stdout, stuck,
                   windows>>

\* The connection to the display is lost while the event loop runs (idle, or
\* waiting in the dialog): the X library writes its message and ends the
\* process at once with exit code 1; mainloop() and main() never return, the
\* streams are not flushed, and every thread ends with the process.
DisplayLost ==
    /\ pc \in {"idle", "dialog"}
    /\ env' = [env EXCEPT !.display = FALSE]
    /\ stderr' = IF env.stderr = "ok"
                 THEN Append(stderr, "X connection broken")
                 ELSE stderr
    /\ command' = "none"
    /\ pc' = "exit"
    /\ exitCode' = "1"
    /\ threads' = [i \in DOMAIN threads |->
                     IF Alive(threads[i])
                     THEN [threads[i] EXCEPT !.st = "killed"]
                     ELSE threads[i]]
    /\ UNCHANGED <<tk, messagebox, webview, HAS_WEBVIEW, URL, exc, root, clicks,
                   calls, browserCalls, dialogs, stdout, stuck, windows>>

\* pywebview is installed while the launcher runs (the remedy the dialog names).
InstallWebview ==
    /\ root.built
    /\ pc \notin {"returned", "exit"}
    /\ ~env.webview
    /\ env' = [env EXCEPT !.webview = TRUE]
    /\ UNCHANGED <<stuck, tk, messagebox, webview, HAS_WEBVIEW, URL, pc, exc, exitCode,
                   root, command, clicks, calls, browserCalls, dialogs, stdout,
                   stderr, threads, windows>>

Next ==
    \/ MainPrintNotice
    \/ MainFallback
    \/ MainBuildWindow
    \/ MainTkError
    \/ \E c \in Commands : Click(c)
    \/ RunOpenInBrowser
    \/ WebbrowserOpenReturns
    \/ RunOpenInWebview
    \/ DismissDialog
    \/ ThreadStartReturns
    \/ ThreadStartFails
    \/ CloseWindow
    \/ \E i \in DOMAIN threads : ThreadBootstrap(i)
    \/ \E i \in DOMAIN threads : ThreadCreateWindow(i)
    \/ \E i \in DOMAIN threads : ThreadStart(i)
    \/ \E i \in DOMAIN threads : ThreadReturn(i)
    \/ InterpreterExit
    \/ DisplayLost
    \/ InstallWebview

Spec == Init /\ [][Next]_vars

\* What the interpreter's scheduling gives: the main thread runs its own code
\* up to the next blocking call, a started thread is bootstrapped and t.start()
\* then returns, and the interpreter exits once main() has returned.  Nothing
\* is assumed of what the program waits for: the return of webbrowser.open,
\* the dismissal of the dialog, the user's clicks and closing of windows, the
\* embedded view, the display.
FairSpec ==
    /\ Spec
    /\ WF_vars(MainPrintNotice)
    /\ WF_vars(MainFallback)
    /\ WF_vars(MainBuildWindow)
    /\ WF_vars(MainTkError)
    /\ WF_vars(RunOpenInBrowser)
    /\ WF_vars(RunOpenInWebview)
    /\ WF_vars(\E i \in DOMAIN threads : ThreadBootstrap(i))
    /\ WF_vars(ThreadStartReturns)
    /\ WF_vars(InterpreterExit)

(***************************************************************************)
(* The properties                                                          *)
(***************************************************************************)
NumClicks == clicks["open_in_webview"] + clicks["open_in_browser"]

Called(f) == calls'[f] = calls[f] + 1

IsCatchatOpen(call) == call.url = CatchatUrl /\ call.new = 2

\* The main thread is inside a button handler.
InHandler == pc \in {"dispatch", "in_open", "dialog", "in_start"}

\* This step is the user's closing of the launcher window.
UserCloses == ~root.closed /\ root'.closed

\* The traceback of an exception out of webbrowser.open.
OpenTraceback == "Traceback: exception in webbrowser.open"

\* tkinter's report of an exception in a handler cannot be written and raises:
\* standard error is full, or it is closed (the report then goes to standard
\* output) and standard output is full and unbuffered.
ReportFails ==
    \/ env.stderr = "full"
    \/ env.stderr = "closed" /\ env.stdout = "full" /\ env.unbuffered

\* This step writes nothing to the standard streams.
Silent == stdout' = stdout /\ stderr' = stderr /\ stuck' = stuck

\* This step writes nothing to the standard streams but the one line: to
\* standard error when that can be written, and otherwise to at most one of
\* the two.
OnlyWrites(line) ==
    /\ stderr' \in {stderr, Append(stderr, line)}
    /\ stdout' \in {stdout, Append(stdout, line)}
    /\ stderr' = stderr \/ stdout' = stdout
    /\ (env.stderr = "ok" => stderr' = Append(stderr, line))
    /\ (env.stderr = "full" => stdout' = stdout /\ stderr' = stderr)

\* C1: when tk is None no window is ever built and the event loop is never
\* entered, and a run of main() that has ended has made exactly one
\* webbrowser.open call, with the Catchat URL.
C1_NoTkOpensBrowserOnce ==
    tk = "None" =>
        /\ ~root.built
        /\ root.buttons = {}
        /\ pc \in {"main", "fallback", "in_open", "returned", "exit"}
        /\ Len(browserCalls) <= 1
        /\ (pc \in {"returned", "exit"} =>
              /\ Len(browserCalls) = 1
              /\ IsCatchatOpen(browserCalls[1]))

\* What C2 says of every call of open_in_browser but for its output: it makes
\* exactly one webbrowser.open call, with the Catchat URL, whatever
\* HAS_WEBVIEW is, so after n calls of open_in_browser there are n
\* webbrowser.open calls; from its call to its end it makes no thread and
\* shows no dialog, and its own steps change no thread and register no
\* embedded window.
OneOpenPerBrowserAction ==
    /\ [](/\ Len(browserCalls) = calls["open_in_browser"]
          /\ \A k \in DOMAIN browserCalls : IsCatchatOpen(browserCalls[k]))
    /\ [][Called("open_in_browser") =>
            /\ Len(browserCalls') = Len(browserCalls) + 1
            /\ SubSeq(browserCalls', 1, Len(browserCalls)) = browserCalls
            /\ IsCatchatOpen(browserCalls'[Len(browserCalls')])
            /\ threads' = threads
            /\ windows' = windows
            /\ dialogs' = dialogs
            /\ stderr' = stderr]_vars
    /\ [][pc = "in_open" =>
            /\ Len(threads') = Len(threads)
            /\ dialogs' = dialogs
            /\ Len(browserCalls') = Len(browserCalls)
            /\ (pc' # pc => threads' = threads /\ windows' = windows)]_vars

\* C2 as stated: OneOpenPerBrowserAction, and the end of the call writes
\* nothing to stderr.
C2_BrowserActionIsSilent ==
    /\ OneOpenPerBrowserAction
    /\ [][(pc = "in_open" /\ pc' # pc) => stderr' = stderr]_vars

\* C2, amended: OneOpenPerBrowserAction, and the end of the call writes
\* nothing unless webbrowser.open raised: then the traceback of that
\* exception and nothing else.  A call made by a button ends in the idle
\* launcher, whether webbrowser.open returned or raised, with the process
\* running and main() not ended, unless it raised and the report of the
\* exception cannot be written: then main() ends by the report's OSError.
\* The call made by main() when tk is None ends main(), by the exception if
\* webbrowser.open raised.
C2_BrowserActionOpensExactlyOnce ==
    /\ OneOpenPerBrowserAction
    /\ [][(pc = "in_open" /\ pc' # pc) =>
            /\ exitCode' = "running"
            /\ IF browserCalls'[Len(browserCalls')].ok = "raised"
               THEN OnlyWrites(OpenTraceback)
               ELSE Silent
            /\ IF command = "open_in_browser"
               THEN /\ root' = root
                    /\ IF browserCalls'[Len(browserCalls')].ok = "raised" /\ ReportFails
                       THEN pc' = "returned" /\ exc' = "OSError"
                       ELSE pc' = "idle" /\ exc' = "none"
               ELSE /\ tk = "None"
                    /\ pc' = "returned"
                    /\ exc' = IF browserCalls'[Len(browserCalls')].ok = "raised"
                              THEN "Exception"
                              ELSE "none"]_vars

C2_Witness ==
    /\ HAS_WEBVIEW
    /\ pc = "idle"
    /\ calls["open_in_browser"] = 2
    /\ Len(browserCalls) = 2
    /\ browserCalls[1].ok = "raised"
    /\ browserCalls[2].ok = "True"

\* What C3 says of a call of open_in_webview while HAS_WEBVIEW is false, up to
\* the dialog: it makes no thread and registers no embedded window, produces
\* exactly one diagnostic (the showerror dialog when tkinter is loaded) and
\* waits in it, showing no other dialog; and the idle launcher accepts a
\* click on either button.
MissingWebviewShowsOneDialog ==
    /\ [][(Called("open_in_webview") /\ ~HAS_WEBVIEW) =>
            /\ threads' = threads
            /\ windows' = windows
            /\ Len(dialogs') + Len(stderr') = Len(dialogs) + Len(stderr) + 1
            /\ (tk # "None" =>
                  /\ dialogs' = Append(dialogs, [title |-> WebviewMissingTitle,
                                                 message |-> WebviewMissingDialog])
                  /\ stderr' = stderr
                  /\ pc' = "dialog")
            /\ exc' = "none"
            /\ exitCode' = "running"]_vars
    /\ [][pc = "dialog" =>
            /\ dialogs' = dialogs
            /\ threads' = threads]_vars
    /\ [](~HAS_WEBVIEW =>
            /\ threads = <<>>
            /\ windows = <<>>
            /\ Len(dialogs) = calls["open_in_webview"])
    /\ [](pc = "dialog" => ENABLED DismissDialog)
    /\ []((~HAS_WEBVIEW /\ pc = "idle" /\ NumClicks < MaxClicks) =>
            \A c \in Commands : ENABLED Click(c))

\* C3 as stated: MissingWebviewShowsOneDialog, and the handler leaves the
\* dialog only for the idle launcher, with the process running and main()
\* not ended by an exception.
C3_DialogAlwaysReturnsToIdle ==
    /\ MissingWebviewShowsOneDialog
    /\ [][pc = "dialog" =>
            /\ pc' \in {"dialog", "idle"}
            /\ exitCode' = "running"
            /\ exc' = "none"]_vars

\* C3, amended: MissingWebviewShowsOneDialog, and the handler leaves the
\* dialog for the idle launcher, writing nothing and with the process running,
\* unless the user closes the launcher window under the dialog (then main()
\* ends: showerror's TclError is reported and mainloop() returns, or, when
\* the report cannot be written, the report's OSError ends main()) or the
\* display connection is lost under the dialog (then the process ends with
\* exit code 1).
C3_MissingWebviewIsReportedOnce ==
    /\ MissingWebviewShowsOneDialog
    /\ [][pc = "dialog" => (exitCode' = "running" \/ ~env'.display)]_vars
    /\ [][(pc = "dialog" /\ pc' # pc) =>
            \/ /\ pc' = "idle"
               /\ Silent
               /\ root' = root
               /\ env' = env
               /\ exc' = "none"
            \/ /\ pc' = "returned"
               /\ UserCloses
               /\ exitCode' = "running"
               /\ OnlyWrites("Traceback: _tkinter.TclError")
               /\ exc' = IF ReportFails THEN "OSError" ELSE "none"
            \/ /\ pc' = "exit"
               /\ env.display /\ ~env'.display
               /\ exitCode' = "1"]_vars

C3_Witness ==
    /\ ~HAS_WEBVIEW
    /\ pc = "idle"
    /\ calls["open_in_webview"] = 2
    /\ Len(dialogs) = 2
    /\ threads = <<>>
    /\ exitCode = "running"

\* The webview.create_window calls thread i has made.
WindowsBy(i) == Cardinality({k \in DOMAIN windows : windows[k].by = i})

\* The threads whose webview.start() has run an embedded view: the rendering
\* windows started.
Shown == {i \in DOMAIN threads : threads[i].shown}

\* What C4 says of a call of open_in_webview while HAS_WEBVIEW is true but for
\* the number of rendering windows: it makes exactly one thread and neither
\* calls create_window nor runs a view on the main thread; t.start() returns
\* as soon as the new thread has been bootstrapped, wherever _run has got to
\* and also while webview.start() blocks, so the handler always ends, and in
\* the idle loop unless the OS refused the thread and the report of that
\* cannot be written; and the idle launcher accepts a click on either button
\* and the closing of its window whatever the threads are doing.
HandoffDoesNotBlock ==
    /\ [][(Called("open_in_webview") /\ HAS_WEBVIEW) =>
            /\ Len(threads') = Len(threads) + 1
            /\ \A i \in DOMAIN threads : threads'[i] = threads[i]
            /\ windows' = windows
            /\ pc' = "in_start"]_vars
    /\ [][(pc' # pc \/ calls' # calls \/ clicks' # clicks) =>
            /\ windows' = windows
            /\ \A i \in DOMAIN threads : threads'[i].shown = threads[i].shown]_vars
    /\ [](HAS_WEBVIEW =>
            /\ Len(threads) = calls["open_in_webview"]
            /\ \A k \in DOMAIN windows : windows[k].by \in DOMAIN threads)
    /\ []((pc = "in_start" /\ threads[Len(threads)].st # "new") =>
            ENABLED ThreadStartReturns)
    /\ [][pc = "in_start" =>
            \/ pc' \in {"in_start", "idle"}
            \/ /\ pc' = "returned"
               /\ threads'[Len(threads)].st = "unstarted"
               /\ ReportFails]_vars
    /\ ((pc = "in_start") ~> (pc \in {"idle", "returned"}))
    /\ [](pc = "idle" =>
            /\ ENABLED CloseWindow
            /\ (NumClicks < MaxClicks => \A c \in Commands : ENABLED Click(c)))

\* C4 as stated, the number of rendering windows: every call of
\* open_in_webview made while HAS_WEBVIEW is true starts exactly one rendering
\* window, so a run that has ended has started as many as it made calls.
C4_EveryCallStartsOneWindow ==
    (HAS_WEBVIEW /\ pc = "exit") => Cardinality(Shown) = calls["open_in_webview"]

\* C4, amended: HandoffDoesNotBlock, and the thread of a call calls
\* webview.create_window once and then webview.start() once.  It has started
\* a rendering window exactly when that webview.start() has run the view: not
\* before that call, not if the OS refused the thread (tkinter reports the
\* RuntimeError and the launcher is idle again, or, when the report cannot be
\* written, main() ends by the report's OSError), not if the process ended
\* before the thread got to webview.start(), and not if webview.start()
\* raised.  So a call starts at most one rendering window.
C4_EmbeddedViewRunsOnItsOwnThread ==
    /\ HandoffDoesNotBlock
    /\ [](\A i \in DOMAIN threads :
            /\ WindowsBy(i) <= 1
            /\ (threads[i].st \in {"new", "started", "unstarted"} =>
                   WindowsBy(i) = 0)
            /\ (threads[i].st \in {"created", "running", "raised", "done"} =>
                   WindowsBy(i) = 1)
            /\ (threads[i].st \in {"new", "started", "unstarted", "created", "raised"} =>
                   ~threads[i].shown)
            /\ (threads[i].st \in {"running", "done"} => threads[i].shown)
            /\ (threads[i].shown => WindowsBy(i) = 1))
    /\ [](Cardinality(Shown) <= calls["open_in_webview"])
    /\ [][\A i \in DOMAIN threads :
            (threads'[i].shown /\ ~threads[i].shown) =>
                threads[i].st = "created" /\ threads'[i].st = "running"]_vars
    /\ [][(pc = "in_start" /\ pc' # pc) =>
            \/ pc' = "idle" /\ threads' = threads /\ Silent /\ exc' = "none"
            \/ /\ threads[Len(threads)].st = "new"
               /\ threads'[Len(threads)].st = "unstarted"
               /\ OnlyWrites("Traceback: exception in Thread.start")
               /\ pc' = IF ReportFails THEN "returned" ELSE "idle"
               /\ exc' = IF ReportFails THEN "OSError" ELSE "none"]_vars

C4_Witness ==
    /\ HAS_WEBVIEW
    /\ pc = "idle"
    /\ NumClicks < MaxClicks
    /\ Len(threads) = 1
    /\ threads[1].st = "running"
    /\ threads[1].shown
    /\ WindowsBy(1) = 1

\* C5: when the windowing capability is present (tk is not None), main()
\* builds a window whose buttons are exactly the two commands; webbrowser.open
\* is called and a thread is made only for a click; a handler leaves only for
\* the idle loop; and main() ends, and the process exits, only from the idle
\* loop by the user's closing of the window.
C5_WindowedRunIdlesUntilClosed ==
    /\ [](tk # "None" /\ pc # "main" =>
            /\ root.built
            /\ Cardinality(root.buttons) = 2
            /\ {b.command : b \in root.buttons} = Commands)
    /\ [](tk # "None" =>
            /\ Len(browserCalls) <= clicks["open_in_browser"]
            /\ Len(threads) <= clicks["open_in_webview"])
    /\ [][(tk # "None" /\ InHandler) => (InHandler' \/ pc' = "idle")]_vars
    /\ [][(tk # "None" /\ pc \notin {"returned", "exit"}
                       /\ pc' \in {"returned", "exit"}) =>
            /\ pc = "idle"
            /\ pc' = "returned"
            /\ UserCloses]_vars

\* C6: no failure ends main() with an exception: the process never exits with
\* a traceback and exit code 1, and a run that cannot show a window ends with
\* the browser opened instead.
C6_EveryFailureIsNonFatal ==
    /\ exc = "none"
    /\ exitCode # "1"
    /\ (pc \in {"returned", "exit"} /\ ~root.built => Len(browserCalls) = 1)

\* C7: HAS_WEBVIEW and URL never change after the module is loaded, also when
\* pywebview is installed while the launcher runs; so one run never takes both
\* branches of open_in_webview (never both a diagnostic and a thread).
C7_FlagAndUrlAreFixed ==
    /\ [][HAS_WEBVIEW' = HAS_WEBVIEW /\ URL' = URL]_vars
    /\ [](URL = CatchatUrl)
    /\ [](Len(dialogs) = 0 \/ Len(threads) = 0)

C7_Witness ==
    /\ env.webview
    /\ ~HAS_WEBVIEW
    /\ pc = "idle"
    /\ Len(dialogs) = 2

C9_ThreadsShareNothing ==
    \A i \in DOMAIN threads : threads[i].sees \subseteq {i}

\* C10: no step of the main thread before the exit of the process stops or
\* changes a thread that is running; once main() has returned the interpreter
\* can exit at once, whatever the threads are doing, and it does; and no
\* thread is alive after the exit.
C10_LauncherNeverWaitsForTheView ==
    /\ [][((pc' # pc \/ calls' # calls \/ clicks' # clicks) /\ pc' # "exit") =>
            \A i \in DOMAIN threads :
                threads[i].st # "new" => threads'[i] = threads[i]]_vars
    /\ [](pc = "returned" => ENABLED InterpreterExit)
    /\ [](pc = "exit" => \A i \in DOMAIN threads : ~Alive(threads[i]))
    /\ ((pc = "returned") ~> (pc = "exit"))

C10_Witness ==
    /\ pc = "exit"
    /\ root.built
    /\ \E i \in DOMAIN threads : threads[i].st = "killed"

====
